---- MODULE Spec2Model ----
(***************************************************************************)
(* A model of the streaming chat client of the Ollama Obsidian plugin      *)
(* (src/src/api/ai-client.ts) and of the UI handlers that call it.         *)
(*                                                                         *)
(* Text is modelled as a sequence of wire characters.  The alphabet is     *)
(* abstract where the code does not look inside:                           *)
(*   "\n"      a line break                                                *)
(*   " "       a space                                                     *)
(*   "data:"   the five characters  data:                                  *)
(*   "[DONE]"  the six characters   [DONE]                                 *)
(*   "M"       the JSON text  {"message":{"role":"assistant","content":"   *)
(*   "C"       the JSON text  {"choices":[{"delta":{"content":"            *)
(*   "E"       the JSON text that closes the string and the object(s)      *)
(*   "a", "b"  characters of a content string                              *)
(*   "#"       a character that is not JSON                                *)
(* A chunk boundary may fall between any two wire characters.              *)
(***************************************************************************)
EXTENDS Integers, Sequences, FiniteSets, TLC

\* ------------------------------------------------------------------ bounds
MaxCalls == 2
MaxLines == 3
MaxOps == 4
MaxHandlers == 3
MaxMessages == 2
MaxContent == 2

Calls == 1..MaxCalls

\* ------------------------------------------------------------------ text
Letters == {"a", "b"}
DataPrefix == <<"data:", " ">>
DoneMark == <<"[DONE]">>

RECURSIVE Flatten(_)
Flatten(ss) == IF ss = <<>> THEN <<>> ELSE Head(ss) \o Flatten(Tail(ss))

StartsWith(s, p) == Len(s) >= Len(p) /\ SubSeq(s, 1, Len(p)) = p

\* s.includes(pat)
Includes(s, pat) ==
    \E i \in 0..(Len(s) - Len(pat)) : SubSeq(s, i + 1, i + Len(pat)) = pat

\* s.endsWith(pat)
EndsWith(s, pat) ==
    Len(s) >= Len(pat) /\ SubSeq(s, Len(s) - Len(pat) + 1, Len(s)) = pat

RECURSIVE TrimLeft(_)
TrimLeft(s) == IF s # <<>> /\ Head(s) = " " THEN TrimLeft(Tail(s)) ELSE s

RECURSIVE TrimRight(_)
TrimRight(s) ==
    IF s # <<>> /\ s[Len(s)] = " " THEN TrimRight(SubSeq(s, 1, Len(s) - 1)) ELSE s

Trim(s) == TrimRight(TrimLeft(s))

\* text.split('\n')
RECURSIVE SplitLines(_)
SplitLines(text) ==
    LET idx == {i \in 1..Len(text) : text[i] = "\n"} IN
    IF idx = {} THEN <<text>>
    ELSE LET i == CHOOSE j \in idx : \A k \in idx : j <= k IN
         <<SubSeq(text, 1, i - 1)>> \o SplitLines(SubSeq(text, i + 1, Len(text)))

\* line.replace('data: ', ''): the first occurrence is removed
ReplaceDataPrefix(line) ==
    LET at == {i \in 1..Len(line) - 1 : line[i] = "data:" /\ line[i + 1] = " "} IN
    IF at = {} THEN line
    ELSE LET i == CHOOSE j \in at : \A k \in at : j <= k IN
         SubSeq(line, 1, i - 1) \o SubSeq(line, i + 2, Len(line))

\* JSON.parse: surrounding white space is ignored; the text is an event object
\* opened by "M" or "C", holding content characters and closed by "E".
\* Every other text, and every proper fragment of an event object, either
\* throws or parses to a value with no content field: ok = FALSE stands for
\* both, since the decoder skips the line in both cases.
ParseJSON(data) ==
    LET t == Trim(data) IN
    IF /\ Len(t) >= 2
       /\ t[1] \in {"M", "C"}
       /\ t[Len(t)] = "E"
       /\ \A i \in 2..(Len(t) - 1) : t[i] \in Letters
    THEN [ok |-> TRUE,
          key |-> IF t[1] = "M" THEN "message" ELSE "choices",
          content |-> SubSeq(t, 2, Len(t) - 1)]
    ELSE [ok |-> FALSE, key |-> "none", content |-> <<>>]

\* json.message?.content || ''  and  json.choices?.[0]?.delta?.content || ''
ChunkOf(json, isOllama) ==
    IF isOllama
    THEN IF json.key = "message" THEN json.content ELSE <<>>
    ELSE IF json.key = "choices" THEN json.content ELSE <<>>

\* text.split('\n').filter(line => line.trim())
StreamLines(text) == SelectSeq(SplitLines(text), LAMBDA l : Trim(l) # <<>>)

\* The body of the for loop of _processStream: the delta of one line, <<>>
\* when the line is skipped.
StreamLineChunk(line, isOllama) ==
    LET hasPrefix == StartsWith(line, DataPrefix)
        data == IF hasPrefix THEN SubSeq(line, 3, Len(line)) ELSE line
    IN IF hasPrefix /\ data = DoneMark THEN <<>>
       ELSE LET json == ParseJSON(data) IN
            IF json.ok THEN ChunkOf(json, isOllama) ELSE <<>>

\* text.split('\n').filter(line => line.trim().startsWith('data:'))
OpenAIStreamLines(text) ==
    SelectSeq(SplitLines(text), LAMBDA l : StartsWith(Trim(l), <<"data:">>))

\* The body of the for loop of _processOpenAIStream.
OpenAIStreamLineChunk(line) ==
    LET data == Trim(ReplaceDataPrefix(line)) IN
    IF data = DoneMark THEN <<>>
    ELSE LET json == ParseJSON(data) IN
         IF json.ok THEN ChunkOf(json, FALSE) ELSE <<>>

\* The two stream decoders behind one interface: decoder is "stream" for
\* _processStream and "openai" for _processOpenAIStream.
LinesOf(decoder, text) ==
    IF decoder = "openai" THEN OpenAIStreamLines(text) ELSE StreamLines(text)

\* The line loop with the catch around JSON.parse and the sentinel test
\* taken out: a line that is not an event is handed on as it is.
LineChunkRaw(decoder, line, isOllama) ==
    LET data == Trim(ReplaceDataPrefix(line))
        json == ParseJSON(data)
    IN IF json.ok THEN ChunkOf(json, decoder # "openai" /\ isOllama) ELSE data

\* The line loop without the sentinel test: the sentinel is handed on as a delta.
LineChunkSentinelAsDelta(decoder, line, isOllama) ==
    IF Trim(ReplaceDataPrefix(line)) = DoneMark THEN DoneMark
    ELSE IF decoder = "openai" THEN OpenAIStreamLineChunk(line)
    ELSE StreamLineChunk(line, isOllama)

LineChunk(decoder, line, isOllama) ==
    IF decoder = "openai" THEN OpenAIStreamLineChunk(line)
    ELSE StreamLineChunk(line, isOllama)

\* if (chunk): the empty string is falsy
TruthyAlways(chunk) == TRUE
Truthy(chunk) == chunk # <<>>

\* content += chunk
AccumulateSwapped(content, chunk) == chunk \o content
Accumulate(content, chunk) == content \o chunk

\* ------------------------------------------------------------------ settings
\* An endpoint is a sequence of URL parts: a part is a run of characters that
\* the code never looks inside ("/", " " and ":" are parts of their own).
LocalEndpoint == <<"http://", "localhost", ":", "11434">>
HostedEndpoint == <<"https://", "api.openai.com", "/", "v1">>

LocalSettings ==
    [apiEndpoint |-> LocalEndpoint, apiKey |-> "", model |-> "llama3",
     streamingEnabled |-> TRUE]
HostedSettings ==
    [apiEndpoint |-> HostedEndpoint, apiKey |-> "sk-1", model |-> "gpt-4o",
     streamingEnabled |-> FALSE]
SettingsSet == {LocalSettings, HostedSettings}

IsOllamaNoPort(apiEndpoint) ==
    \/ Includes(apiEndpoint, <<"localhost">>)
    \/ Includes(apiEndpoint, <<"127.0.0.1">>)
IsOllama(apiEndpoint) ==
    \/ Includes(apiEndpoint, <<"localhost">>)
    \/ Includes(apiEndpoint, <<"127.0.0.1">>)
    \/ Includes(apiEndpoint, <<"11434">>)

GetBaseUrl(apiEndpoint) ==
    LET url == Trim(apiEndpoint) IN
    IF EndsWith(url, <<"/">>) THEN SubSeq(url, 1, Len(url) - 1) ELSE url

GetChatEndpoint(apiEndpoint) ==
    LET base == GetBaseUrl(apiEndpoint) IN
    IF IsOllama(apiEndpoint) THEN base \o <<"/", "api", "/", "chat">>
    ELSE IF Includes(base, <<"/", "v1">>) THEN base \o <<"/", "chat", "/", "completions">>
    ELSE base \o <<"/", "v1", "/", "chat", "/", "completions">>

GetModelsEndpointChatPath(apiEndpoint) == GetChatEndpoint(apiEndpoint)
GetModelsEndpoint(apiEndpoint) ==
    LET base == GetBaseUrl(apiEndpoint) IN
    IF IsOllama(apiEndpoint) THEN base \o <<"/", "api", "/", "tags">>
    ELSE IF Includes(base, <<"/", "v1">>) THEN base \o <<"/", "models">>
    ELSE base \o <<"/", "v1", "/", "models">>

\* headers['Authorization'] = `Bearer ${apiKey}` when the key is not empty
Authorization(apiKey) == IF apiKey # "" THEN "Bearer " \o apiKey ELSE "absent"

\* The shape of the JSON body: sampling parameters under "options" for the
\* local dialect, at top level otherwise.
BodyShape(apiEndpoint) == IF IsOllama(apiEndpoint) THEN "options" ELSE "flat"

\* The request handed to fetch() by chat().
Request(s, options) ==
    [url |-> GetChatEndpoint(s.apiEndpoint),
     authorization |-> Authorization(s.apiKey),
     shape |-> BodyShape(s.apiEndpoint),
     model |-> options.model,
     messages |-> options.messages,
     stream |-> options.stream]

NoRequest ==
    [url |-> <<>>, authorization |-> "absent", shape |-> "none", model |-> "",
     messages |-> <<>>, stream |-> FALSE]

\* ------------------------------------------------------------------ results
NoOutcome ==
    [kind |-> "none", role |-> "", content |-> <<>>, name |-> "", message |-> ""]
MessageOutcome(role, content) ==
    [kind |-> "message", role |-> role, content |-> content, name |-> "",
     message |-> ""]
UndefinedOutcome ==
    [kind |-> "undefined", role |-> "", content |-> <<>>, name |-> "",
     message |-> ""]
ErrorOutcome(name, message) ==
    [kind |-> "error", role |-> "", content |-> <<>>, name |-> name,
     message |-> message]

\* ------------------------------------------------------------------ state
VARIABLES
    settings,         \* AIClient._settings
    abortController,  \* AIClient._abortController: 0 is null, else the call
                      \* whose chat() created the controller
    signal,           \* signal[c]: the controller created by call c is aborted
    fetchCount,       \* number of fetch() invocations (the transport's count)
    call,             \* call[c]: the activation record of the c-th chat()
    obs,              \* obs[c]: what an observer of call c has recorded
    decoder,          \* which stream decoder the client has
    ui,               \* the state of the UI components that call chat()
    models,           \* the activation record of fetchModels()
    conversations,    \* ConversationHistory._conversations
    chatHistory,      \* settings.chatHistory
    saveLog           \* what saveSettings has been handed (saved is the chat
                      \* history in the plugin's data file), whether the plugin
                      \* is loaded, and what an observer of the store has noted

clientVars == <<settings, abortController, signal, fetchCount, call, obs, decoder>>
storeVars == <<conversations, chatHistory, saveLog>>
vars == <<settings, abortController, signal, fetchCount, call, obs, decoder, ui,
          models, conversations, chatHistory, saveLog>>

IdleCall ==
    [pc |-> "idle", req |-> NoRequest, status |-> 0, wire |-> <<>>,
     lines |-> <<>>, isOllama |-> FALSE, content |-> <<>>,
     outcome |-> NoOutcome, caller |-> "none"]

NoObs ==
    [tokens |-> <<>>, body |-> <<>>, startSettings |-> LocalSettings,
     decodedAs |-> "none", errorBody |-> [kind |-> "none", errorMessage |-> "",
                                          message |-> ""],
     abortRequested |-> FALSE, abortedMid |-> FALSE,
     tokensAfterAbort |-> 0, readsAfterAbort |-> 0, splitLine |-> FALSE]

InFlight(c) == call[c].pc \in {"fetching", "errbody", "json", "reading", "lines"}
Settled(c) == call[c].pc \in {"resolved", "rejected"}

\* JavaScript runs a handler to completion: nothing else runs while the for
\* loop of a stream decoder is working through the lines of a chunk.
NoSync == \A c \in Calls : call[c].pc # "lines"

\* What the component that issued a call has rendered for its outcome.
NotRendered == [done |-> FALSE, error |-> FALSE, text |-> ""]
RenderedAnswer == [done |-> TRUE, error |-> FALSE, text |-> ""]
RenderedNothing == [done |-> TRUE, error |-> FALSE, text |-> "nothing"]
RenderedError(message) == [done |-> TRUE, error |-> TRUE, text |-> "Error: " \o message]

\* focusActive is FocusMode._isActive; inline and inlineCall are the position
\* of InlineChat._handleSend; popGenerating is ChatPopover._isGenerating,
\* popAdding the number of ChatPopover sends that await addUserMessage and
\* popFinishing the number that await addAssistantMessage.
\* doc is what ChatPopover has put into the document of the editor, in
\* document order: insert markers and the texts that replaced them;
\* replaced[c] is the text that the send of call c put in place of a marker.
InsertMarker == [kind |-> "marker", text |-> <<>>]
DocText(text) == [kind |-> "text", text |-> text]
NotReplaced == [done |-> FALSE, text |-> <<>>]
\* handlers is the list of the keydown listeners that FocusMode has on the
\* document, each named by the editor its closure holds; focusEditor is the
\* editor passed to the most recent enter; lastKey is what the last key event
\* did: how many listeners acted on it while focus mode was active, and how
\* often each editor was written.
Editors == {"e1", "e2"}
NoWrites == [e \in Editors |-> 0]
NoKey == [key |-> "none", wasActive |-> FALSE, editor |-> "none", acted |-> 0,
          writes |-> NoWrites]

\* fill is the position of processFillPatterns: the number of matches that
\* detect() returned, the match whose chat call is awaited, that call, and how
\* many matches updatedContent has replaced.  fillEditor is the editor of the
\* command: how often setValue was called and how many fill patterns of its
\* content are replaced.
NoFill == [pc |-> "idle", matches |-> 0, index |-> 0, call |-> 0, updated |-> 0]

\* note is a ChatNote: the messages it has when it saves, the text of the
\* editor, and the messages it has after it is shown again over that text.
NoNote == [pc |-> "chatting", messages |-> <<>>, text |-> <<>>, parsed |-> <<>>]

\* inlineHistory is the entry of the current note in
\* InlineChat._conversationHistory, as the sequence of the roles of its
\* messages; inlineLocal is the array that the pending send works on;
\* inlineBefore is the entry as it was when the last send began and
\* inlineFailed tells whether the chat call of the last send failed.
NoInlineHistory == [has |-> FALSE, messages |-> <<>>]
UiInit ==
    [focusActive |-> FALSE, inline |-> "idle", inlineCall |-> 0,
     popGenerating |-> FALSE, popAdding |-> 0, popFinishing |-> 0,
     rendered |-> [c \in Calls |-> NotRendered],
     doc |-> <<>>, replaced |-> [c \in Calls |-> NotReplaced],
     inlineHistory |-> NoInlineHistory, inlineLocal |-> <<>>,
     inlineBefore |-> NoInlineHistory, inlineFailed |-> FALSE,
     handlers |-> <<>>, focusEditor |-> "none", lastKey |-> NoKey,
     fill |-> NoFill, fillEditor |-> [writes |-> 0, filled |-> 0],
     note |-> NoNote]

\* The result of fetchModels(): a list of model names, or a rejection.
NoModels == [kind |-> "none", names |-> <<>>, name |-> ""]
ModelList(names) == [kind |-> "list", names |-> names, name |-> ""]
ModelsError(name) == [kind |-> "error", names |-> <<>>, name |-> name]

IdleModels ==
    [pc |-> "idle", url |-> <<>>, authorization |-> "absent", endpoint |-> <<>>,
     cause |-> "none", result |-> NoModels]

\* The conversation store: a Map from note id to entry, and the object of the
\* same shape kept in settings.chatHistory.
NoteIds == {"n1", "n2"}
NoEntry == [has |-> FALSE, messages |-> <<>>]
Entry(messages) == [has |-> TRUE, messages |-> messages]
EmptyHistory == [n \in NoteIds |-> NoEntry]

\* new ConversationHistory() followed by initialize(settings, saveCallback),
\* as onload does: the entries of settings.chatHistory are put into the Map.
InitStore(loaded) ==
    /\ chatHistory = loaded
    /\ conversations = loaded
    /\ saveLog = [ops |-> 0, saves |-> 0, saved |-> loaded,
                  op |-> [kind |-> "initialize", noteId |-> ""],
                  added |-> [n \in NoteIds |-> loaded[n].messages],
                  loaded |-> TRUE, atUnload |-> loaded, tabCleared |-> FALSE]

InitProgram(s, d, loaded) ==
    /\ settings = s
    /\ abortController = 0
    /\ signal = [c \in Calls |-> FALSE]
    /\ fetchCount = 0
    /\ call = [c \in Calls |-> IdleCall]
    /\ obs = [c \in Calls |-> NoObs]
    /\ decoder = d
    /\ ui = UiInit
    /\ models = IdleModels
    /\ InitStore(loaded)

InitClient(s, d) == InitProgram(s, d, EmptyHistory)

\* ------------------------------------------------------------------ server
\* What the provider sends back.  The dialect of a response is the dialect of
\* the endpoint the request went to.
ServerIsOllama(url) == Includes(url, <<"/", "api", "/", "chat">>)

EventLine(isOllama, delta) ==
    IF isOllama THEN <<"M">> \o delta \o <<"E">>
    ELSE DataPrefix \o <<"C">> \o delta \o <<"E">>

GarbageLine(isOllama) == IF isOllama THEN <<"#">> ELSE DataPrefix \o <<"#">>

DoneLine == DataPrefix \o DoneMark

RECURSIVE JoinLines(_)
JoinLines(ls) ==
    IF ls = <<>> THEN <<>> ELSE Head(ls) \o <<"\n">> \o JoinLines(Tail(ls))

LineKinds(isOllama) ==
    {EventLine(isOllama, <<"a">>), EventLine(isOllama, <<"b">>),
     EventLine(isOllama, <<>>), GarbageLine(isOllama)}
    \cup (IF isOllama THEN {} ELSE {DoneLine})

\* Every body of at most MaxLines lines.
StreamBodies(isOllama) ==
    {JoinLines(ls) : ls \in UNION {[1..n -> LineKinds(isOllama)] : n \in 0..MaxLines}}

\* The body of a usual answer: three deltas, and the sentinel in the
\* OpenAI-compatible dialect.
UsualBody(isOllama) ==
    JoinLines(<<EventLine(isOllama, <<"a">>), EventLine(isOllama, <<"b">>),
                EventLine(isOllama, <<"a">>)>>
              \o (IF isOllama THEN <<>> ELSE <<DoneLine>>))

\* The body of a short answer: one delta.
ShortBody(isOllama) == JoinLines(<<EventLine(isOllama, <<"a">>)>>)

\* ------------------------------------------------------------------ chat()
Messages1 == <<[role |-> "user", content |-> <<"a">>]>>

OptionsSet ==
    {[model |-> "m", messages |-> Messages1, stream |-> TRUE],
     [model |-> "m", messages |-> Messages1, stream |-> FALSE],
     [model |-> "", messages |-> Messages1, stream |-> TRUE],
     [model |-> "m", messages |-> <<>>, stream |-> FALSE]}

\* chat(), up to its first await: the controller is replaced, the request is
\* built from the current settings and handed to fetch().
StartChat(c, options, who) ==
    /\ call[c].pc = "idle"
    /\ \A d \in Calls : d < c => call[d].pc # "idle"
    /\ abortController' = c
    /\ fetchCount' = fetchCount + 1
    /\ call' = [call EXCEPT ![c].pc = "fetching",
                            ![c].req = Request(settings, options),
                            ![c].caller = who]
    /\ obs' = [obs EXCEPT ![c].startSettings = settings]
    /\ UNCHANGED <<settings, signal, decoder, models, storeVars>>

ChatStart(c, options) ==
    /\ NoSync
    /\ StartChat(c, options, "api")
    /\ UNCHANGED ui

\* Whether the exchange of call c has been aborted: fetch() was given the
\* signal of the controller that chat() created.
ExchangeAbortedNever(c) == FALSE
ExchangeAbortedAny(c) == \E d \in Calls : signal[d]
ExchangeAborted(c) == signal[c]

Settle(c, result) ==
    [call EXCEPT ![c].pc = IF result.kind = "error" THEN "rejected" ELSE "resolved",
                 ![c].outcome = result,
                 ![c].wire = <<>>,
                 ![c].lines = <<>>]

\* fetch() rejects: the signal was aborted, or the network failed.
FetchReject(c) ==
    /\ NoSync
    /\ call[c].pc = "fetching"
    /\ call' = Settle(c, IF ExchangeAborted(c)
                         THEN ErrorOutcome("AbortError", "aborted")
                         ELSE ErrorOutcome("TypeError", "Failed to fetch"))
    /\ UNCHANGED <<settings, abortController, signal, fetchCount, obs, decoder, ui, models, storeVars>>

\* fetch() resolves with a response; chat() runs on to its next await.  For a
\* streamed success that is the first reader.read() of the stream decoder,
\* which has read the dialect from the settings by then.
FetchResponse(c, status, body) ==
    /\ NoSync
    /\ call[c].pc = "fetching"
    /\ ~ExchangeAborted(c)
    /\ IF status \notin 200..299
       THEN /\ call' = [call EXCEPT ![c].pc = "errbody", ![c].status = status]
            /\ obs' = obs
       ELSE IF ~call[c].req.stream
       THEN /\ call' = [call EXCEPT ![c].pc = "json", ![c].status = status]
            /\ obs' = obs
       ELSE /\ call' = [call EXCEPT ![c].pc = "reading",
                                    ![c].status = status,
                                    ![c].wire = body,
                                    ![c].isOllama = IsOllama(settings.apiEndpoint)]
            /\ obs' = [obs EXCEPT
                         ![c].body = body,
                         ![c].decodedAs =
                             IF decoder = "openai" THEN "openai"
                             ELSE IF IsOllama(settings.apiEndpoint) THEN "ollama"
                             ELSE "openai"]
    /\ UNCHANGED <<settings, abortController, signal, fetchCount, decoder, ui, models, storeVars>>

\* The JSON of an error response as the provider sends it: not decodable, the
\* value null, or an object with error.message and message fields ("" stands
\* for a field that is absent or empty).
ErrorBody(kind, errorMessage, message) ==
    [kind |-> kind, errorMessage |-> errorMessage, message |-> message]
EmptyObject == ErrorBody("object", "", "")
ErrorBodies ==
    {ErrorBody("invalid", "", ""), ErrorBody("null", "", ""), EmptyObject,
     ErrorBody("object", "model not found", ""),
     ErrorBody("object", "", "rate limited"),
     ErrorBody("object", "model not found", "rate limited")}

\* error.error?.message || error.message || `API error: ${response.status}`
ErrorMessageNoTopLevel(error, status) ==
    IF error.errorMessage # "" THEN error.errorMessage
    ELSE "API error: " \o ToString(status)
ErrorMessage(error, status) ==
    IF error.errorMessage # "" THEN error.errorMessage
    ELSE IF error.message # "" THEN error.message
    ELSE "API error: " \o ToString(status)

\* await response.json().catch(() => ({})) and the throw that follows it.
ErrorBodySettle(c, sent) ==
    /\ NoSync
    /\ call[c].pc = "errbody"
    /\ LET error == IF ExchangeAborted(c) \/ sent.kind = "invalid"
                    THEN EmptyObject ELSE sent
       IN /\ call' = Settle(c, IF error.kind = "null"
                               THEN ErrorOutcome("TypeError", "null has no properties")
                               ELSE ErrorOutcome("Error",
                                                 ErrorMessage(error, call[c].status)))
          /\ obs' = [obs EXCEPT ![c].errorBody = error]
    /\ UNCHANGED <<settings, abortController, signal, fetchCount, decoder, ui, models, storeVars>>

\* The JSON of a whole (non-streamed) success response: "message" holds
\* {message: {role, content}}, "choices" holds {choices: [{message}]}, "empty"
\* holds neither, "invalid" is not JSON.
Payloads(isOllama) ==
    {IF isOllama THEN "message" ELSE "choices", "empty", "invalid"}
PayloadContent == <<"a", "b">>

\* What chat() returns for a decoded whole response.
DecodeWhole(isOllama, payload) ==
    IF isOllama
    THEN IF payload = "message" THEN MessageOutcome("assistant", PayloadContent)
         ELSE UndefinedOutcome
    ELSE IF payload = "choices" THEN MessageOutcome("assistant", PayloadContent)
         ELSE ErrorOutcome("TypeError", "undefined has no properties")

\* await response.json() of a success response and the decode that follows;
\* the dialect is read from the settings after the await.
JsonSettle(c, payload) ==
    /\ NoSync
    /\ call[c].pc = "json"
    /\ IF ExchangeAborted(c)
       THEN /\ call' = Settle(c, ErrorOutcome("AbortError", "aborted"))
            /\ obs' = obs
       ELSE IF payload = "invalid"
       THEN /\ call' = Settle(c, ErrorOutcome("SyntaxError", "not JSON"))
            /\ obs' = obs
       ELSE /\ call' = Settle(c, DecodeWhole(IsOllama(settings.apiEndpoint), payload))
            /\ obs' = [obs EXCEPT ![c].decodedAs =
                          IF IsOllama(settings.apiEndpoint) THEN "ollama" ELSE "openai"]
    /\ UNCHANGED <<settings, abortController, signal, fetchCount, decoder, ui, models, storeVars>>

\* ------------------------------------------------------------------ abort()
\* this._abortController?.abort()
AbortEveryController(controller, sig) ==
    IF controller = 0 THEN sig ELSE [c \in Calls |-> TRUE]
AbortSignals(controller, sig) ==
    IF controller = 0 THEN sig ELSE [sig EXCEPT ![controller] = TRUE]

\* What the observer notes when abort() is requested.
NoteAbort(o) ==
    [c \in Calls |->
        IF c = abortController /\ InFlight(c)
        THEN [o[c] EXCEPT
                !.abortRequested = TRUE,
                !.abortedMid = @ \/ (call[c].pc \in {"reading", "lines"}
                                     /\ o[c].tokens # <<>>)]
        ELSE o[c]]

Abort ==
    /\ NoSync
    /\ signal' = AbortSignals(abortController, signal)
    /\ obs' = NoteAbort(obs)
    /\ UNCHANGED <<settings, abortController, fetchCount, call, decoder, ui, models, storeVars>>

\* ------------------------------------------------------------------ updateSettings()
UpdateSettings(s) ==
    /\ NoSync
    /\ settings' = s
    /\ UNCHANGED <<abortController, signal, fetchCount, call, obs, decoder, ui, models, storeVars>>

\* ------------------------------------------------------------------ the stream decoders
\* reader.read() resolves with the next chunk: any non-empty prefix of what
\* the provider has still to send.  The chunk is split into lines and the for
\* loop starts.
ReadChunk(c, k) ==
    /\ NoSync
    /\ call[c].pc = "reading"
    /\ ~ExchangeAborted(c)
    /\ k \in 1..Len(call[c].wire)
    /\ LET text == SubSeq(call[c].wire, 1, k)
           ls == LinesOf(decoder, text)
       IN call' = [call EXCEPT
                     ![c].wire = SubSeq(call[c].wire, k + 1, Len(call[c].wire)),
                     ![c].lines = ls,
                     ![c].pc = IF ls = <<>> THEN "reading" ELSE "lines"]
    /\ obs' = [obs EXCEPT
                 ![c].readsAfterAbort = IF obs[c].abortRequested THEN @ + 1 ELSE @,
                 ![c].splitLine = @ \/ (k < Len(call[c].wire) /\ call[c].wire[k] # "\n")]
    /\ UNCHANGED <<settings, abortController, signal, fetchCount, decoder, ui, models, storeVars>>

\* reader.read() resolves with done: the call returns the assembled message.
ReadDone(c) ==
    /\ NoSync
    /\ call[c].pc = "reading"
    /\ ~ExchangeAborted(c)
    /\ call[c].wire = <<>>
    /\ call' = Settle(c, MessageOutcome("assistant", call[c].content))
    /\ UNCHANGED <<settings, abortController, signal, fetchCount, obs, decoder, ui, models, storeVars>>

\* reader.read() rejects: the exchange was aborted, or the body stream failed.
ReadReject(c) ==
    /\ NoSync
    /\ call[c].pc = "reading"
    /\ call' = Settle(c, IF ExchangeAborted(c)
                         THEN ErrorOutcome("AbortError", "aborted")
                         ELSE ErrorOutcome("TypeError", "network error"))
    /\ UNCHANGED <<settings, abortController, signal, fetchCount, obs, decoder, ui, models, storeVars>>

\* One turn of the for loop over the lines of a chunk.  A delta that is not
\* empty is appended to the content and passed to the callback; the callback
\* may call abort() (abortInCallback).
ProcessLine(c, abortInCallback) ==
    /\ call[c].pc = "lines"
    /\ LET line == Head(call[c].lines)
           chunk == LineChunk(decoder, line, call[c].isOllama)
           rest == Tail(call[c].lines)
           fires == Truthy(chunk)
           seen == [obs EXCEPT
                      ![c].tokens = IF fires THEN Append(@, chunk) ELSE @,
                      ![c].tokensAfterAbort =
                          IF fires /\ obs[c].abortRequested THEN @ + 1 ELSE @]
       IN /\ abortInCallback => fires
          /\ call' = [call EXCEPT
                        ![c].content = IF fires THEN Accumulate(@, chunk) ELSE @,
                        ![c].lines = rest,
                        ![c].pc = IF rest = <<>> THEN "reading" ELSE "lines"]
          /\ IF abortInCallback
             THEN /\ signal' = AbortSignals(abortController, signal)
                  /\ obs' = [d \in Calls |->
                               IF d = abortController /\ InFlight(d)
                               THEN [seen[d] EXCEPT
                                       !.abortRequested = TRUE,
                                       !.abortedMid = @ \/ (call[d].pc \in {"reading", "lines"}
                                                            /\ seen[d].tokens # <<>>)]
                               ELSE seen[d]]
             ELSE /\ signal' = signal
                  /\ obs' = seen
    /\ UNCHANGED <<settings, abortController, fetchCount, decoder, ui, models, storeVars>>

\* ------------------------------------------------------------------ fetchModels()
\* fetchModels(), up to its first await: the request goes to the model-listing
\* endpoint of the current settings.
FetchModels ==
    /\ NoSync
    /\ models.pc = "idle"
    /\ fetchCount' = fetchCount + 1
    /\ models' = [models EXCEPT
                    !.pc = "fetching",
                    !.url = GetModelsEndpoint(settings.apiEndpoint),
                    !.authorization = Authorization(settings.apiKey),
                    !.endpoint = settings.apiEndpoint]
    /\ UNCHANGED <<settings, abortController, signal, call, obs, decoder, ui, storeVars>>

\* try { ... } catch { return []; } around the whole body of fetchModels.
CatchNothing(outcome) == outcome
CatchAll(outcome) == IF outcome.kind = "error" THEN ModelList(<<>>) ELSE outcome

ModelsSettle(cause, outcome) ==
    [models EXCEPT !.pc = IF outcome.kind = "error" THEN "rejected" ELSE "resolved",
                   !.cause = cause,
                   !.result = outcome]

\* fetch() rejects.
FetchModelsReject ==
    /\ NoSync
    /\ models.pc = "fetching"
    /\ models' = ModelsSettle("transport", CatchAll(ModelsError("TypeError")))
    /\ UNCHANGED <<clientVars, ui, storeVars>>

\* fetch() resolves: if (!response.ok) return []; else await response.json().
FetchModelsResponse(status) ==
    /\ NoSync
    /\ models.pc = "fetching"
    /\ models' = IF status \notin 200..299
                 THEN ModelsSettle("status", CatchAll(ModelList(<<>>)))
                 ELSE [models EXCEPT !.pc = "json"]
    /\ UNCHANGED <<clientVars, ui, storeVars>>

\* The JSON of a model listing as the provider sends it: not decodable, the
\* value null, {models: [...]}, {data: [{id}, ...]}, {data: 7}, or {}.
ModelPayloads == {"invalid", "null", "models", "data", "dataNotArray", "empty"}
ModelNames == <<"m1", "m2">>

\* What the body of fetchModels makes of a decoded listing.
ModelsOf(isOllama, payload) ==
    CASE payload = "invalid" -> ModelsError("SyntaxError")
      [] payload = "null" -> ModelsError("TypeError")
      [] payload # "invalid" /\ payload # "null" /\ isOllama ->
            IF payload = "models" THEN ModelList(ModelNames) ELSE ModelList(<<>>)
      [] OTHER ->
            IF payload = "data" THEN ModelList(ModelNames)
            ELSE IF payload = "dataNotArray" THEN ModelsError("TypeError")
            ELSE ModelList(<<>>)

\* await response.json() and the decode that follows; the dialect is read
\* from the settings after the await.
FetchModelsJson(payload) ==
    /\ NoSync
    /\ models.pc = "json"
    /\ models' = ModelsSettle(IF payload \in {"invalid", "null", "dataNotArray"}
                              THEN "decode" ELSE "ok",
                              CatchAll(ModelsOf(IsOllama(settings.apiEndpoint), payload)))
    /\ UNCHANGED <<clientVars, ui, storeVars>>

\* ------------------------------------------------------------------ ConversationHistory
Message(role, content) == [role |-> role, content |-> content]
MessageSet == {Message("user", "a"), Message("user", "b"), Message("assistant", "a")}

\* getMessages(noteId): entry?.messages || []
GetMessages(noteId) ==
    IF conversations[noteId].has THEN conversations[noteId].messages ELSE <<>>

\* entry.messages.push(message)
PushMessageFront(messages, message) == <<message>> \o messages
PushMessage(messages, message) == Append(messages, message)

\* _persist(): settings.chatHistory becomes an object with the entries of the
\* Map, and the save callback is invoked.
Persist(convs, op, added) ==
    /\ chatHistory' = convs
    /\ saveLog' = [saveLog EXCEPT !.ops = @ + 1, !.saves = @ + 1,
                                  !.saved = convs, !.op = op, !.added = added]

\* addMessage(noteId, message), up to the await of the save callback.
AddMessageTo(noteId, message) ==
    LET entry == IF conversations[noteId].has THEN conversations[noteId]
                 ELSE Entry(<<>>)
        convs == [conversations EXCEPT
                    ![noteId] = Entry(PushMessage(entry.messages, message))]
    IN /\ conversations' = convs
       /\ Persist(convs, [kind |-> "addMessage", noteId |-> noteId],
                  [saveLog.added EXCEPT ![noteId] = Append(@, message)])

AddMessage(noteId, message) ==
    /\ saveLog.loaded
    /\ saveLog.ops < MaxOps
    /\ AddMessageTo(noteId, message)
    /\ UNCHANGED <<clientVars, ui, models>>

ClearConversation(noteId) ==
    /\ saveLog.loaded
    /\ saveLog.ops < MaxOps
    /\ LET convs == [conversations EXCEPT ![noteId] = NoEntry]
       IN /\ conversations' = convs
          /\ Persist(convs, [kind |-> "clearConversation", noteId |-> noteId],
                     [saveLog.added EXCEPT ![noteId] = <<>>])
    /\ UNCHANGED <<clientVars, ui, models>>

ClearAll ==
    /\ saveLog.loaded
    /\ saveLog.ops < MaxOps
    /\ conversations' = EmptyHistory
    /\ Persist(EmptyHistory, [kind |-> "clearAll", noteId |-> ""],
               [n \in NoteIds |-> <<>>])
    /\ UNCHANGED <<clientVars, ui, models>>

\* The 'Clear All History' button of the settings tab:
\* settings.chatHistory = {} and saveSettings(); the store is not told.
SettingsClearAll ==
    /\ saveLog.loaded
    /\ saveLog.ops < MaxOps
    /\ chatHistory' = EmptyHistory
    /\ saveLog' = [saveLog EXCEPT !.ops = @ + 1,
                                  !.saved = EmptyHistory,
                                  !.op = [kind |-> "settingsClearAll", noteId |-> ""],
                                  !.added = [n \in NoteIds |-> <<>>],
                                  !.tabCleared = TRUE]
    /\ UNCHANGED <<clientVars, ui, models, conversations>>

\* onunload: the last statement is conversation.clearAll(), which empties the
\* Map and persists the empty history.
Unload ==
    /\ saveLog.loaded
    /\ saveLog.ops < MaxOps
    /\ conversations' = EmptyHistory
    /\ chatHistory' = EmptyHistory
    /\ saveLog' = [saveLog EXCEPT !.ops = @ + 1, !.saves = @ + 1,
                                  !.saved = EmptyHistory,
                                  !.op = [kind |-> "onunload", noteId |-> ""],
                                  !.added = [n \in NoteIds |-> <<>>],
                                  !.loaded = FALSE,
                                  !.atUnload = saveLog.saved]
    /\ UNCHANGED <<clientVars, ui, models>>

\* onload: loadSettings reads the data file, and a new ConversationHistory
\* is initialized from settings.chatHistory.
Load ==
    /\ ~saveLog.loaded
    /\ saveLog.ops < MaxOps
    /\ chatHistory' = saveLog.saved
    /\ conversations' = saveLog.saved
    /\ saveLog' = [saveLog EXCEPT !.ops = @ + 1,
                                  !.op = [kind |-> "onload", noteId |-> ""],
                                  !.added = [n \in NoteIds |-> saveLog.saved[n].messages],
                                  !.loaded = TRUE,
                                  !.tabCleared = FALSE]
    /\ UNCHANGED <<clientVars, ui, models>>

\* ------------------------------------------------------------------ specifications
StatusSet == {200, 404, 500}

\* The sizes of the next chunk when the network keeps lines whole: the first
\* line, or all that is left.
LineSizes(wire) ==
    {k \in 1..Len(wire) : k = Len(wire) \/ (wire[k] = "\n" /\ \A j \in 1..(k - 1) : wire[j] # "\n")}

\* Spec: the client under callers that overlap their calls: any interleaving
\* of chat() and abort() with the progress of up to MaxCalls calls, under
\* either settings.  Requests are well-formed and the provider answers with
\* the usual body, kept in whole lines, or with an error.
Init == InitClient(LocalSettings, "stream") \/ InitClient(HostedSettings, "stream")

ValidOptions == {o \in OptionsSet : o.model # "" /\ o.messages # <<>>}

Next ==
    \/ \E c \in Calls, o \in ValidOptions : ChatStart(c, o)
    \/ \E c \in Calls : FetchReject(c)
    \/ \E c \in Calls, st \in {200, 500} :
          FetchResponse(c, st, UsualBody(ServerIsOllama(call[c].req.url)))
    \/ \E c \in Calls : ErrorBodySettle(c, ErrorBody("object", "model not found", ""))
    \/ \E c \in Calls :
          JsonSettle(c, IF ServerIsOllama(call[c].req.url) THEN "message" ELSE "choices")
    \/ \E c \in Calls : \E k \in LineSizes(call[c].wire) : ReadChunk(c, k)
    \/ \E c \in Calls : ReadDone(c)
    \/ \E c \in Calls : ReadReject(c)
    \/ \E c \in Calls, ab \in BOOLEAN : ProcessLine(c, ab)
    \/ Abort

Spec == Init /\ [][Next]_vars

\* SpecOne: one call of any shape (also with an empty model or no messages)
\* under abort() and updateSettings(), with every status, every error body,
\* every payload and every segmentation of the usual body.
NextOne ==
    \/ \E o \in OptionsSet : ChatStart(1, o)
    \/ FetchReject(1)
    \/ \E st \in StatusSet : FetchResponse(1, st, UsualBody(ServerIsOllama(call[1].req.url)))
    \/ \E e \in ErrorBodies : ErrorBodySettle(1, e)
    \/ \E p \in Payloads(ServerIsOllama(call[1].req.url)) : JsonSettle(1, p)
    \/ \E k \in 1..Len(call[1].wire) : ReadChunk(1, k)
    \/ ReadDone(1)
    \/ ReadReject(1)
    \/ \E ab \in BOOLEAN : ProcessLine(1, ab)
    \/ Abort
    \/ \E s \in SettingsSet : UpdateSettings(s)

SpecOne == Init /\ [][NextOne]_vars

\* SpecStream: one streamed call over every body of at most MaxLines lines
\* and every segmentation of it into chunks, for both decoders.
InitStream ==
    \/ InitClient(LocalSettings, "stream")
    \/ InitClient(HostedSettings, "stream")
    \/ InitClient(HostedSettings, "openai")

NextStream ==
    \/ ChatStart(1, [model |-> "m", messages |-> Messages1, stream |-> TRUE])
    \/ /\ call[1].pc = "fetching"
       /\ \E b \in StreamBodies(ServerIsOllama(call[1].req.url)) : FetchResponse(1, 200, b)
    \/ \E k \in 1..Len(call[1].wire) : ReadChunk(1, k)
    \/ ReadDone(1)
    \/ ProcessLine(1, FALSE)

SpecStream == InitStream /\ [][NextStream]_vars

\* SpecEndpoints: one chat() and one fetchModels() under every configured
\* endpoint of EndpointSet, with and without an API key.
EndpointSet ==
    {lead \o host \o port \o path \o tail :
        lead \in {<<>>, <<" ">>},
        host \in {<<"http://", "localhost">>, <<"http://", "127.0.0.1">>,
                  <<"https://", "api.openai.com">>, <<"http://", "host">>},
        port \in {<<>>, <<":", "11434">>, <<":", "8080">>},
        path \in {<<>>, <<"/", "v1">>, <<"/", "v2">>, <<"/", "api">>},
        tail \in {<<>>, <<"/">>, <<"/", "/">>, <<" ">>, <<"/", " ">>}}

EndpointSettings ==
    {[apiEndpoint |-> e, apiKey |-> k, model |-> "llama3", streamingEnabled |-> TRUE] :
        e \in EndpointSet, k \in {"", "sk-1"}}

InitEndpoints == \E s \in EndpointSettings : InitClient(s, "stream")

NextEndpoints ==
    \/ ChatStart(1, [model |-> "m", messages |-> Messages1, stream |-> TRUE])
    \/ FetchReject(1)
    \/ FetchModels
    \/ FetchModelsReject
    \/ \E st \in StatusSet : FetchModelsResponse(st)
    \/ \E p \in ModelPayloads : FetchModelsJson(p)

SpecEndpoints == InitEndpoints /\ [][NextEndpoints]_vars

\* SpecStore: the conversation store after onload, under every sequence of at
\* most MaxOps mutating operations.
LoadedSet == {EmptyHistory, [EmptyHistory EXCEPT !["n1"] = Entry(<<Message("user", "a")>>)]}

InitStoreSpec == \E loaded \in LoadedSet : InitProgram(LocalSettings, "stream", loaded)

NextStore ==
    \/ \E n \in NoteIds, m \in MessageSet : AddMessage(n, m)
    \/ \E n \in NoteIds : ClearConversation(n)
    \/ ClearAll

SpecStore == InitStoreSpec /\ [][NextStore]_vars

\* SpecLifecycle: the store under its operations, the settings tab's clear
\* button, and the unloading and loading of the plugin.
NextLifecycle ==
    \/ \E n \in NoteIds, m \in MessageSet : AddMessage(n, m)
    \/ \E n \in NoteIds : ClearConversation(n)
    \/ ClearAll
    \/ SettingsClearAll
    \/ Unload
    \/ Load

SpecLifecycle == InitStoreSpec /\ [][NextLifecycle]_vars

\* ------------------------------------------------------------------ the UI callers
\* The plugin hands one AIClient, and one settings object, to every component.

\* FocusMode.enter and FocusMode.exit: enter adds a keydown listener to the
\* document, exit leaves the listeners alone.
FocusEnter(editor) ==
    /\ NoSync
    /\ ~ui.focusActive
    /\ Len(ui.handlers) < MaxHandlers
    /\ ui' = [ui EXCEPT !.focusActive = TRUE,
                        !.focusEditor = editor,
                        !.handlers = Append(@, editor)]
    /\ UNCHANGED <<settings, abortController, signal, fetchCount, call, obs, decoder, models, storeVars>>

FocusExit ==
    /\ NoSync
    /\ ui.focusActive
    /\ ui' = [ui EXCEPT !.focusActive = FALSE]
    /\ UNCHANGED <<settings, abortController, signal, fetchCount, call, obs, decoder, models, storeVars>>

\* A key event goes to the listeners in the order they were added.  A
\* listener that finds focus mode inactive removes itself; otherwise Escape
\* writes the overlay content into the listener's editor and exits, and
\* Ctrl/Cmd+S writes it.  st is the state as the listeners so far left it.
RECURSIVE HandleKeydown(_, _, _)
HandleKeydown(listeners, key, st) ==
    IF listeners = <<>> THEN st
    ELSE LET editor == Head(listeners) IN
         IF ~st.active THEN HandleKeydown(Tail(listeners), key, st)
         ELSE HandleKeydown(Tail(listeners), key,
                  [active |-> IF key = "Escape" THEN FALSE ELSE TRUE,
                   kept |-> Append(st.kept, editor),
                   acted |-> st.acted + 1,
                   writes |-> IF key \in {"Escape", "CtrlS"}
                              THEN [st.writes EXCEPT ![editor] = @ + 1]
                              ELSE st.writes])

Keys == {"Escape", "CtrlS", "other"}

KeyDown(key) ==
    /\ NoSync
    /\ LET st == HandleKeydown(ui.handlers, key,
                               [active |-> ui.focusActive, kept |-> <<>>, acted |-> 0,
                                writes |-> NoWrites])
       IN ui' = [ui EXCEPT
                   !.focusActive = st.active,
                   !.handlers = st.kept,
                   !.lastKey = [key |-> key, wasActive |-> ui.focusActive,
                                editor |-> ui.focusEditor, acted |-> st.acted,
                                writes |-> st.writes]]
    /\ UNCHANGED <<settings, abortController, signal, fetchCount, call, obs, decoder, models, storeVars>>

\* FocusMode._handleAiRequest with a prompt typed in: the overlay is there,
\* and chat() is called.
FocusSend(c) ==
    /\ NoSync
    /\ ui.focusActive
    /\ StartChat(c, [model |-> IF settings.model # "" THEN settings.model ELSE "llama3",
                     messages |-> Messages1,
                     stream |-> settings.streamingEnabled], "focus")
    /\ UNCHANGED ui

\* What a component renders for the outcome of its call: renderAbort tells
\* whether it writes an error text for a cancellation too.
RenderOutcome(outcome, renderAbort) ==
    IF outcome.kind # "error" THEN RenderedAnswer
    ELSE IF outcome.name = "AbortError" /\ ~renderAbort THEN RenderedNothing
    ELSE RenderedError(outcome.message)

\* FocusMode._handleAiRequest after chat() has settled: the catch writes
\* 'Error: ' and the message of any error into the response element, which
\* is there while the overlay is.
FocusSettled(c) ==
    /\ NoSync
    /\ call[c].caller = "focus"
    /\ Settled(c)
    /\ ~ui.rendered[c].done
    /\ ui' = [ui EXCEPT !.rendered[c] =
                  IF call[c].outcome.kind = "error" /\ ~ui.focusActive
                  THEN RenderedNothing
                  ELSE RenderOutcome(call[c].outcome, TRUE)]
    /\ UNCHANGED <<settings, abortController, signal, fetchCount, call, obs, decoder, models, storeVars>>

\* ChatPopover._handleSend with a prompt typed in, up to the await of
\* addUserMessage: the flag is set and the prompt is put into the store.
PopoverNote == "n1"
PopoverSend ==
    /\ NoSync
    /\ ~ui.popGenerating
    /\ Cardinality({c \in Calls : call[c].pc = "idle"}) > ui.popAdding
    /\ ui' = [ui EXCEPT !.popGenerating = TRUE, !.popAdding = @ + 1]
    /\ AddMessageTo(PopoverNote, Message("user", <<"a">>))
    /\ UNCHANGED <<clientVars, models>>

\* fullContent.indexOf(insertMarker) and
\* fullContent.replace(insertMarker, streamedContent): the first marker of the
\* document, if there is one, gives way to the text.
HasMarker(doc) == \E i \in 1..Len(doc) : doc[i] = InsertMarker
ReplaceMarker(doc, text) ==
    IF ~HasMarker(doc) THEN doc
    ELSE LET i == CHOOSE j \in 1..Len(doc) :
                     /\ doc[j] = InsertMarker
                     /\ \A k \in 1..(j - 1) : doc[k] # InsertMarker
         IN [doc EXCEPT ![i] = DocText(text)]

\* The text the send of call c has collected in its token callback.
StreamedContent(c) == Flatten(obs[c].tokens)

\* ChatPopover._handleSend after that await: the insert marker is written
\* into the document and chat() is called with the conversation context.
PopoverChatCall(c) ==
    /\ NoSync
    /\ ui.popAdding > 0
    /\ StartChat(c, [model |-> settings.model, messages |-> GetMessages(PopoverNote),
                     stream |-> settings.streamingEnabled], "popover")
    /\ ui' = [ui EXCEPT !.popAdding = @ - 1, !.doc = Append(@, InsertMarker)]

\* ChatPopover._handleSend after chat() has settled.  For a message the
\* marker is replaced by the streamed text, the message goes into the store
\* and the handler awaits addAssistantMessage; an error is written
\* into the response element unless its name is AbortError, and the finally
\* block clears the flag.  (A call resolved to undefined fails on
\* response.content, which the catch renders.)
PopoverSettled(c) ==
    /\ NoSync
    /\ call[c].caller = "popover"
    /\ Settled(c)
    /\ ~ui.rendered[c].done
    /\ IF call[c].outcome.kind = "message"
       THEN /\ AddMessageTo(PopoverNote, Message("assistant", call[c].outcome.content))
            /\ ui' = [ui EXCEPT
                        !.rendered[c] = RenderedAnswer,
                        !.popFinishing = @ + 1,
                        !.doc = ReplaceMarker(@, StreamedContent(c)),
                        !.replaced[c] =
                            IF HasMarker(ui.doc)
                            THEN [done |-> TRUE, text |-> StreamedContent(c)]
                            ELSE @]
       ELSE /\ ui' = [ui EXCEPT
                        !.rendered[c] =
                            IF call[c].outcome.kind = "undefined"
                            THEN RenderedError("undefined has no properties")
                            ELSE RenderOutcome(call[c].outcome, FALSE),
                        !.popGenerating = FALSE]
            /\ UNCHANGED storeVars
    /\ UNCHANGED <<clientVars, models>>

\* ChatPopover._handleSend after the await of addAssistantMessage: finally.
PopoverFinally ==
    /\ NoSync
    /\ ui.popFinishing > 0
    /\ ui' = [ui EXCEPT !.popFinishing = @ - 1, !.popGenerating = FALSE]
    /\ UNCHANGED <<clientVars, models, storeVars>>

\* ChatPopover._handleStop: the Stop button is shown while the flag is set.
PopoverStop ==
    /\ NoSync
    /\ ui.popGenerating
    /\ signal' = AbortSignals(abortController, signal)
    /\ obs' = NoteAbort(obs)
    /\ ui' = [ui EXCEPT !.popGenerating = FALSE]
    /\ UNCHANGED <<settings, abortController, fetchCount, call, decoder, models, storeVars>>

\* InlineChat._handleSend with a message typed in, up to the await of
\* _extractEmbeddedPDFs.
InlineSend ==
    /\ NoSync
    /\ ui.inline = "idle"
    /\ ui' = [ui EXCEPT !.inline = "extracting"]
    /\ UNCHANGED <<settings, abortController, signal, fetchCount, call, obs, decoder, models, storeVars>>

\* InlineChat._handleSend after that await: the history of the note is
\* taken from the Map (the stored array itself when there is one, a new
\* array otherwise), a system message is pushed when it is empty, the user
\* message is pushed, and chat() is called, streaming.
InlineHistoryForSend(stored) ==
    LET history == IF stored.has THEN stored.messages ELSE <<>> IN
    (IF Len(history) = 0 THEN <<"system">> ELSE history) \o <<"user">>

InlineChatCall(c) ==
    /\ NoSync
    /\ ui.inline = "extracting"
    /\ StartChat(c, [model |-> settings.model, messages |-> Messages1,
                     stream |-> TRUE], "inline")
    /\ LET history == InlineHistoryForSend(ui.inlineHistory) IN
       ui' = [ui EXCEPT
                !.inline = "chatting",
                !.inlineCall = c,
                !.inlineBefore = ui.inlineHistory,
                !.inlineFailed = FALSE,
                !.inlineLocal = history,
                !.inlineHistory = IF @.has THEN [@ EXCEPT !.messages = history] ELSE @]

\* InlineChat._handleSend after chat() has settled: on success the
\* assistant message is pushed and the array is put into the Map; the catch
\* writes a warning callout with the message of any error; and
\* _isGenerating = false.
InlineSettled ==
    /\ NoSync
    /\ ui.inline = "chatting"
    /\ Settled(ui.inlineCall)
    /\ ui' = [ui EXCEPT !.inline = "idle", !.inlineCall = 0,
                        !.rendered[ui.inlineCall] =
                            RenderOutcome(call[ui.inlineCall].outcome, TRUE),
                        !.inlineFailed = (call[ui.inlineCall].pc = "rejected"),
                        !.inlineLocal = <<>>,
                        !.inlineHistory =
                            IF call[ui.inlineCall].pc = "rejected" THEN @
                            ELSE [has |-> TRUE,
                                  messages |-> Append(ui.inlineLocal, "assistant")]]
    /\ UNCHANGED <<settings, abortController, signal, fetchCount, call, obs, decoder, models, storeVars>>

\* SpecPlugin: the client as the plugin's components call it, under either
\* settings; the provider answers with a short body or with an error.  (The
\* save callback of the store hands the client the settings object it
\* already has.)
NextPlugin ==
    \/ FocusEnter("e1")
    \/ FocusExit
    \/ \E c \in Calls : FocusSend(c)
    \/ \E c \in Calls : FocusSettled(c)
    \/ PopoverSend
    \/ \E c \in Calls : PopoverChatCall(c)
    \/ \E c \in Calls : PopoverSettled(c)
    \/ PopoverFinally
    \/ PopoverStop
    \/ InlineSend
    \/ \E c \in Calls : InlineChatCall(c)
    \/ InlineSettled
    \/ \E c \in Calls : FetchReject(c)
    \/ \E c \in Calls, st \in {200, 500} :
          FetchResponse(c, st, ShortBody(ServerIsOllama(call[c].req.url)))
    \/ \E c \in Calls : ErrorBodySettle(c, ErrorBody("object", "model not found", ""))
    \/ \E c \in Calls :
          JsonSettle(c, IF ServerIsOllama(call[c].req.url) THEN "message" ELSE "choices")
    \/ \E c \in Calls : \E k \in LineSizes(call[c].wire) : ReadChunk(c, k)
    \/ \E c \in Calls : ReadDone(c)
    \/ \E c \in Calls : ReadReject(c)
    \/ \E c \in Calls : ProcessLine(c, FALSE)

SpecPlugin == Init /\ [][NextPlugin]_vars

\* ------------------------------------------------------------------ processFillPatterns
\* The prompt that createPrompt makes of the i-th match.
FillPrompt(i) == <<[role |-> "user", content |-> <<"fill", ToString(i)>>]>>

FillOptions(i) ==
    [model |-> settings.model, messages |-> FillPrompt(i), stream |-> FALSE]

\* The command with n matches in the editor content: it returns at once
\* without matches, and calls chat() for the first match otherwise.
FillStart(n) ==
    /\ NoSync
    /\ ui.fill.pc = "idle"
    /\ IF n = 0
       THEN /\ ui' = [ui EXCEPT !.fill.pc = "done"]
            /\ UNCHANGED <<settings, abortController, signal, fetchCount, call, obs, decoder, models, storeVars>>
       ELSE \E c \in Calls :
            /\ StartChat(c, FillOptions(1), "fill")
            /\ ui' = [ui EXCEPT !.fill = [pc |-> "awaiting", matches |-> n, index |-> 1,
                                          call |-> c, updated |-> 0]]

\* Whether the loop body throws after the await: chat() rejected, or it
\* resolved with undefined and response.content throws.
FillFailedNever(outcome) == FALSE
FillFailed(outcome) == outcome.kind # "message"

\* The awaited chat call has settled: the function rejects, or it replaces
\* the match in updatedContent and either calls chat() for the next match or
\* leaves the loop and calls editor.setValue(updatedContent).
FillSettled(c) ==
    /\ NoSync
    /\ ui.fill.pc = "awaiting"
    /\ ui.fill.call = c
    /\ Settled(c)
    /\ IF FillFailed(call[c].outcome)
       THEN /\ ui' = [ui EXCEPT !.fill.pc = "failed"]
            /\ UNCHANGED <<settings, abortController, signal, fetchCount, call, obs, decoder, models, storeVars>>
       ELSE IF ui.fill.index < ui.fill.matches
       THEN \E d \in Calls :
            /\ StartChat(d, FillOptions(ui.fill.index + 1), "fill")
            /\ ui' = [ui EXCEPT !.fill.index = @ + 1,
                                !.fill.call = d,
                                !.fill.updated = @ + 1]
       ELSE /\ ui' = [ui EXCEPT !.fill.pc = "done",
                                !.fill.updated = @ + 1,
                                !.fillEditor = [writes |-> @.writes + 1,
                                                filled |-> ui.fill.updated + 1]]
            /\ UNCHANGED <<settings, abortController, signal, fetchCount, call, obs, decoder, models, storeVars>>

\* SpecFill: one run of the command over up to MaxCalls matches, with every
\* status, error body and payload for each call, and abort() at any time.
NextFill ==
    \/ \E n \in 0..MaxCalls : FillStart(n)
    \/ \E c \in Calls : FillSettled(c)
    \/ \E c \in Calls : FetchReject(c)
    \/ \E c \in Calls, st \in {200, 500} : FetchResponse(c, st, <<>>)
    \/ \E c \in Calls, e \in ErrorBodies : ErrorBodySettle(c, e)
    \/ \E c \in Calls : \E p \in Payloads(ServerIsOllama(call[c].req.url)) : JsonSettle(c, p)
    \/ Abort

SpecFill == Init /\ [][NextFill]_vars

\* ------------------------------------------------------------------ ChatNote
\* The characters of a note: a content character, a space, a line break, the
\* quote mark, and the two labels, each label standing for its eight
\* characters.
NoteChars == {"a", " ", "\n", "**You:**", "**AI:**"}
QuotePrefix == <<">", " ">>

\* String.prototype.trim on a text with line breaks
IsWhite(ch) == ch \in {" ", "\n"}
RECURSIVE TrimWhiteLeft(_)
TrimWhiteLeft(s) == IF s # <<>> /\ IsWhite(Head(s)) THEN TrimWhiteLeft(Tail(s)) ELSE s
RECURSIVE TrimWhiteRight(_)
TrimWhiteRight(s) ==
    IF s # <<>> /\ IsWhite(s[Len(s)]) THEN TrimWhiteRight(SubSeq(s, 1, Len(s) - 1)) ELSE s
TrimWhite(s) == TrimWhiteRight(TrimWhiteLeft(s))

\* lines.join('\n')
RECURSIVE JoinNewline(_)
JoinNewline(ls) ==
    IF ls = <<>> THEN <<>>
    ELSE IF Len(ls) = 1 THEN ls[1]
    ELSE Head(ls) \o <<"\n">> \o JoinNewline(Tail(ls))

\* The text that _saveToNote writes for one message, and for the list.
SaveMessage(msg) ==
    LET label == IF msg.role = "user" THEN "**You:**" ELSE "**AI:**"
        lines == [i \in 1..Len(SplitLines(msg.content)) |->
                     QuotePrefix \o SplitLines(msg.content)[i]]
    IN QuotePrefix \o <<label, "\n">> \o JoinNewline(lines) \o <<"\n", "\n">>

RECURSIVE SaveToNote(_)
SaveToNote(messages) ==
    IF messages = <<>> THEN <<>>
    ELSE SaveMessage(Head(messages)) \o SaveToNote(Tail(messages))

\* _parseExistingContent: st holds _messages, currentRole ("null" for null)
\* and currentContent as the loop has left them.
PushCurrent(st) ==
    IF st.role # "null" /\ st.content # <<>>
    THEN Append(st.messages, [role |-> st.role,
                              content |-> TrimWhite(JoinNewline(st.content))])
    ELSE st.messages

ParseLine(st, line) ==
    IF StartsWith(line, QuotePrefix \o <<"**You:**">>)
    THEN [messages |-> PushCurrent(st), role |-> "user",
          content |-> <<Trim(SubSeq(line, 4, Len(line)))>>]
    ELSE IF StartsWith(line, QuotePrefix \o <<"**AI:**">>)
    THEN [messages |-> PushCurrent(st), role |-> "assistant",
          content |-> <<Trim(SubSeq(line, 4, Len(line)))>>]
    ELSE IF st.role # "null" /\ StartsWith(line, QuotePrefix)
    THEN [st EXCEPT !.content = Append(@, SubSeq(line, 3, Len(line)))]
    ELSE IF st.role # "null" /\ line = <<">">>
    THEN [st EXCEPT !.content = Append(@, <<>>)]
    ELSE IF st.role # "null" /\ Trim(line) = <<>>
    THEN [messages |-> IF st.content # <<>> THEN PushCurrent(st) ELSE st.messages,
          role |-> "null", content |-> <<>>]
    ELSE st

RECURSIVE ParseLines(_, _)
ParseLines(st, lines) ==
    IF lines = <<>> THEN st ELSE ParseLines(ParseLine(st, Head(lines)), Tail(lines))

ParseExistingContent(text) ==
    PushCurrent(ParseLines([messages |-> <<>>, role |-> "null", content |-> <<>>],
                           SplitLines(text)))

\* The message lists of a ChatNote: user and assistant messages with any
\* content of up to MaxContent characters.
RECURSIVE SeqsUpTo(_, _)
SeqsUpTo(S, n) ==
    IF n = 0 THEN {<<>>}
    ELSE SeqsUpTo(S, n - 1) \cup
         {Append(q, x) : q \in {r \in SeqsUpTo(S, n - 1) : Len(r) = n - 1}, x \in S}

NoteContents == SeqsUpTo(NoteChars, MaxContent)
NoteMessages == {[role |-> r, content |-> c] : r \in {"user", "assistant"}, c \in NoteContents}
NoteMessageLists == SeqsUpTo(NoteMessages, MaxMessages)

\* _saveToNote with an editor
NoteSave ==
    /\ ui.note.pc = "chatting"
    /\ ui' = [ui EXCEPT !.note.pc = "saved", !.note.text = SaveToNote(ui.note.messages)]
    /\ UNCHANGED <<clientVars, models, storeVars>>

\* show() over the saved note: _messages is emptied and parsed from the text
NoteShow ==
    /\ ui.note.pc = "saved"
    /\ ui' = [ui EXCEPT !.note.pc = "shown",
                        !.note.parsed = ParseExistingContent(ui.note.text)]
    /\ UNCHANGED <<clientVars, models, storeVars>>

\* SpecNote: every message list, saved and shown again.
InitNote ==
    /\ settings = LocalSettings
    /\ abortController = 0
    /\ signal = [c \in Calls |-> FALSE]
    /\ fetchCount = 0
    /\ call = [c \in Calls |-> IdleCall]
    /\ obs = [c \in Calls |-> NoObs]
    /\ decoder = "stream"
    /\ \E ms \in NoteMessageLists : ui = [UiInit EXCEPT !.note.messages = ms]
    /\ models = IdleModels
    /\ InitStore(EmptyHistory)

NextNote == NoteSave \/ NoteShow

SpecNote == InitNote /\ [][NextNote]_vars

\* SpecFocus: FocusMode under every sequence of enter, exit and key events,
\* with two editors.
NextFocus ==
    \/ \E e \in Editors : FocusEnter(e)
    \/ FocusExit
    \/ \E key \in Keys : KeyDown(key)

SpecFocus == Init /\ [][NextFocus]_vars

\* ------------------------------------------------------------------ claims
Streamed(c) == call[c].req.stream /\ call[c].status = 200

\* C1: in every streaming chat call the token callback is invoked in the
\* order the deltas were decoded, every invocation happens before the call
\* resolves, and the callback arguments concatenated in invocation order are
\* the content of the returned message, whose role is 'assistant'.
C1_State ==
    \A c \in Calls :
        /\ call[c].pc \in {"reading", "lines"} =>
              call[c].content = Flatten(obs[c].tokens)
        /\ (call[c].pc = "resolved" /\ Streamed(c)) =>
              /\ call[c].outcome.kind = "message"
              /\ call[c].outcome.role = "assistant"
              /\ call[c].outcome.content = Flatten(obs[c].tokens)
C1_Step == \A c \in Calls : Settled(c) => obs'[c].tokens = obs[c].tokens
C1_TokensAreTheMessage == []C1_State /\ [][C1_Step]_vars

\* C1 witness: a streamed call has resolved after two different deltas.
C1_Witness ==
    \E c \in Calls :
        /\ call[c].pc = "resolved" /\ Streamed(c)
        /\ Len(obs[c].tokens) >= 2
        /\ obs[c].tokens[1] # obs[c].tokens[2]

\* The deltas of a body that arrives as one chunk.
RECURSIVE DeltasOfLines(_, _, _)
DeltasOfLines(dec, ls, isOllama) ==
    IF ls = <<>> THEN <<>>
    ELSE LET chunk == LineChunk(dec, Head(ls), isOllama) IN
         (IF chunk = <<>> THEN <<>> ELSE <<chunk>>)
         \o DeltasOfLines(dec, Tail(ls), isOllama)
DeltasOfBody(dec, body, isOllama) == DeltasOfLines(dec, LinesOf(dec, body), isOllama)

\* C2: for one streaming body the deltas passed to the callback and the
\* returned content are the same for every segmentation of the body into
\* chunks: they are those of the body delivered as a single chunk.
C2_SegmentationIndependent ==
    \A c \in Calls :
        (call[c].pc = "resolved" /\ Streamed(c)) =>
            /\ obs[c].tokens = DeltasOfBody(decoder, obs[c].body, call[c].isOllama)
            /\ call[c].outcome.content =
                  Flatten(DeltasOfBody(decoder, obs[c].body, call[c].isOllama))

\* C3: when abort() is invoked after the first delta of a streaming call and
\* before its stream has ended, the call settles with an AbortError (a
\* cancellation, not the TypeError of a transport failure), never with a
\* message, and no token callback fires once the call has settled.
C3_State ==
    \A c \in Calls :
        obs[c].abortedMid =>
            /\ call[c].pc \in {"lines", "reading", "rejected"}
            /\ call[c].pc = "rejected" => call[c].outcome.name = "AbortError"
C3_Step ==
    \A c \in Calls :
        obs[c].abortedMid =>
            /\ (call[c].pc = "reading" /\ call'[c] # call[c]) =>
                  /\ call'[c].pc = "rejected"
                  /\ call'[c].outcome.name = "AbortError"
            /\ call[c].pc = "rejected" => obs'[c].tokens = obs[c].tokens
C3_AbortMidStreamIsCancellation == []C3_State /\ [][C3_Step]_vars

\* C3 witness: a call aborted after its first delta has settled as a
\* cancellation.
C3_Witness ==
    \E c \in Calls :
        /\ obs[c].abortedMid
        /\ obs[c].tokens # <<>>
        /\ call[c].pc = "rejected"
        /\ call[c].outcome.name = "AbortError"

\* C4: once abort() has been requested during a streaming call, also from
\* inside the token callback, no read of that call delivers data and at most
\* one further token callback fires for it.
C4_AtMostOneMoreToken ==
    \A c \in Calls :
        /\ obs[c].readsAfterAbort = 0
        /\ obs[c].tokensAfterAbort <= 1

\* C5: an updateSettings made while a call is in flight has no effect on the
\* call: endpoint, authorization header, body shape and the dialect its
\* response is decoded with are those of the settings at the start of the call.
C5_SettingsOfCallStart ==
    \A c \in Calls :
        call[c].pc # "idle" =>
            LET s == obs[c].startSettings IN
            /\ call[c].req.url = GetChatEndpoint(s.apiEndpoint)
            /\ call[c].req.authorization = Authorization(s.apiKey)
            /\ call[c].req.shape = BodyShape(s.apiEndpoint)
            /\ obs[c].decodedAs # "none" =>
                  obs[c].decodedAs = (IF IsOllama(s.apiEndpoint) THEN "ollama" ELSE "openai")

\* C6: the cancellation handle is null whenever no chat call is in flight.
C6_HandleAbsentWhenIdle ==
    (\A c \in Calls : ~InFlight(c)) => abortController = 0

\* C7: when a second call starts before the first has settled, its handle
\* replaces the first's: abort() cancels the latest call only, the earlier
\* call can no longer be cancelled and is never ended by a cancellation.
LatestStarted ==
    IF \A c \in Calls : call[c].pc = "idle" THEN 0
    ELSE CHOOSE c \in Calls :
            call[c].pc # "idle" /\ \A d \in Calls : call[d].pc # "idle" => d <= c
C7_State ==
    /\ abortController = LatestStarted
    /\ \A c \in Calls : call[c].outcome.name = "AbortError" => signal[c]
C7_Step ==
    \A c \in Calls : signal'[c] # signal[c] => (abortController = c /\ signal'[c])
C7_AbortCancelsLatestOnly == []C7_State /\ [][C7_Step]_vars

\* C7 witness: the second call was cancelled while the first, started before
\* it and not cancelled, is still receiving its stream.
C7_Witness ==
    /\ MaxCalls >= 2
    /\ call[1].pc = "reading" /\ call[1].wire # <<>> /\ obs[1].tokens # <<>>
    /\ ~signal[1]
    /\ signal[2] /\ call[2].pc = "rejected" /\ call[2].outcome.name = "AbortError"

\* C8: in the plugin no chat call starts on the shared client while another
\* chat call on it is still in flight.
C8_CallsSerialized == Cardinality({c \in Calls : InFlight(c)}) <= 1

\* C9: a chat call with an empty model or an empty message list fails with a
\* configuration error and no network request is issued.
C9_FailFast ==
    \A c \in Calls :
        (call[c].pc # "idle" /\ (call[c].req.model = "" \/ call[c].req.messages = <<>>)) =>
            /\ call[c].pc = "rejected"
            /\ call[c].outcome.name = "ConfigurationError"
            /\ fetchCount = 0

NonSuccess(c) == call[c].pc # "idle" /\ call[c].status # 0 /\ call[c].status \notin 200..299
Started == {c \in Calls : call[c].pc # "idle"}

\* C10 as claimed: on a non-success status the error message is the body's
\* error.message when it has one and else the generic 'API error: {status}';
\* no token callback, no message, no second request.
C10_ProviderMessageOrGeneric ==
    \A c \in Calls :
        NonSuccess(c) =>
            /\ obs[c].tokens = <<>>
            /\ call[c].outcome.kind \in {"none", "error"}
            /\ fetchCount = Cardinality(Started)
            /\ call[c].pc = "rejected" =>
                  call[c].outcome.message =
                      (IF obs[c].errorBody.errorMessage # ""
                       THEN obs[c].errorBody.errorMessage
                       ELSE "API error: " \o ToString(call[c].status))

\* C10 as amended: the message is the body's error.message when it has a
\* non-empty one, else the body's top-level message when it has a non-empty
\* one, else the generic 'API error: {status}'; a body that cannot be read or
\* decoded counts as an empty object, and the body null fails the call with a
\* TypeError.  No token callback, no message, no second request.
C10_ErrorMessageFallbacks ==
    \A c \in Calls :
        NonSuccess(c) =>
            /\ call[c].pc \in {"errbody", "rejected"}
            /\ obs[c].tokens = <<>>
            /\ call[c].outcome.kind \in {"none", "error"}
            /\ fetchCount = Cardinality(Started)
            /\ call[c].pc = "rejected" =>
                  LET e == obs[c].errorBody IN
                  CASE e.kind = "null" -> call[c].outcome.name = "TypeError"
                    [] e.kind # "null" /\ e.errorMessage # "" ->
                          /\ call[c].outcome.name = "Error"
                          /\ call[c].outcome.message = e.errorMessage
                    [] e.kind # "null" /\ e.errorMessage = "" /\ e.message # "" ->
                          /\ call[c].outcome.name = "Error"
                          /\ call[c].outcome.message = e.message
                    [] OTHER ->
                          /\ call[c].outcome.name = "Error"
                          /\ call[c].outcome.message =
                                "API error: " \o ToString(call[c].status)

\* C10 witness: a call failed with the top-level message of an error body
\* that has no error.message.
C10_Witness ==
    \E c \in Calls :
        /\ NonSuccess(c) /\ call[c].pc = "rejected"
        /\ obs[c].errorBody.errorMessage = ""
        /\ obs[c].errorBody.message = "rate limited"
        /\ call[c].outcome.message = "rate limited"

\* C11: fetchModels never rejects: when the transport rejects, when the
\* response has a non-success status, or when the body cannot be decoded, it
\* resolves to an empty collection.
C11_FetchModelsNeverRejects ==
    /\ models.pc # "rejected"
    /\ models.result.kind # "error"
    /\ (models.pc = "resolved" /\ models.cause \in {"transport", "status", "decode"}) =>
          models.result = ModelList(<<>>)

\* C11 witness: fetchModels has resolved to an empty collection for a body
\* that could not be decoded.
C11_Witness ==
    /\ models.pc = "resolved"
    /\ models.cause = "decode"
    /\ models.result = ModelList(<<>>)

\* Whether body is prefix, then the one line, then a line break.
EndsWithLine(body, line) == EndsWith(body, line \o <<"\n">>)
BeforeLastLine(body, line) == SubSeq(body, 1, Len(body) - Len(line) - 1)
DeltaSet == {<<"a">>, <<"b">>}

\* C12: a streaming body with one invalid JSON line between two valid lines,
\* its lines arriving whole, yields exactly the deltas of the two valid lines,
\* in order; under every segmentation the invalid line raises no error and
\* does not end the stream, and the call completes with a message.
C12_State ==
    \A c \in Calls : \A d1 \in DeltaSet, d2 \in DeltaSet :
        LET isOllama == ServerIsOllama(call[c].req.url)
            body == JoinLines(<<EventLine(isOllama, d1), GarbageLine(isOllama),
                                EventLine(isOllama, d2)>>)
        IN (Streamed(c) /\ obs[c].body = body) =>
              /\ call[c].pc \in {"reading", "lines", "resolved"}
              /\ (call[c].pc = "reading" /\ call[c].wire = <<>>) => ENABLED ReadDone(c)
              /\ call[c].pc = "resolved" =>
                    /\ call[c].outcome.kind = "message"
                    /\ ~obs[c].splitLine =>
                          /\ obs[c].tokens = <<d1, d2>>
                          /\ call[c].outcome.content = d1 \o d2
C12_Step ==
    \A c \in Calls :
        (call[c].pc = "lines" /\ Head(call[c].lines) = GarbageLine(ServerIsOllama(call[c].req.url))) =>
            /\ call'[c].pc \in {"reading", "lines"}
            /\ obs'[c].tokens = obs[c].tokens
            /\ call'[c].content = call[c].content
C13_State ==
    \A c \in Calls :
        /\ \A i \in 1..Len(obs[c].tokens) : obs[c].tokens[i] # DoneMark
        /\ (Streamed(c) /\ call[c].pc = "resolved" /\ EndsWithLine(obs[c].body, DoneLine)) =>
              /\ call[c].outcome.kind = "message"
              /\ call[c].outcome.content = Flatten(obs[c].tokens)
              /\ ~obs[c].splitLine =>
                    obs[c].tokens = DeltasOfBody(decoder, BeforeLastLine(obs[c].body, DoneLine),
                                                 call[c].isOllama)
C13_Step ==
    \A c \in Calls :
        (call[c].pc = "lines" /\ Head(call[c].lines) = DoneLine) =>
            /\ call'[c].pc \in {"reading", "lines"}
            /\ obs'[c].tokens = obs[c].tokens
            /\ call'[c].content = call[c].content
C13_SentinelDiscarded == []C13_State /\ [][C13_Step]_vars

\* C13 witness: a call whose body was two events and the sentinel has
\* resolved with the two deltas.
C13_Witness ==
    \E c \in Calls :
        /\ call[c].pc = "resolved" /\ Streamed(c)
        /\ EndsWithLine(obs[c].body, DoneLine)
        /\ Len(obs[c].tokens) = 2
        /\ call[c].outcome.content = <<"a", "b">>

\* C14: abort() is idempotent and changes nothing a caller can see when no
\* chat call is in flight (before any call, after a call has settled, twice
\* in a row); a chat call started afterwards is not cancelled by it: a call
\* ends as a cancellation only when abort() was invoked while it was in
\* flight.
C14_State ==
    /\ AbortSignals(abortController, AbortSignals(abortController, signal)) =
          AbortSignals(abortController, signal)
    /\ \A c \in Calls :
          /\ call[c].outcome.name = "AbortError" => obs[c].abortRequested
          /\ (call[c].pc = "idle" /\ (\A d \in Calls : ~InFlight(d))) => ~signal[c]
C14_Step ==
    ((\A c \in Calls : ~InFlight(c)) /\ signal' # signal) =>
        /\ call' = call
        /\ obs' = obs
        /\ abortController' = abortController
        /\ fetchCount' = fetchCount
        /\ settings' = settings
C14_AbortWhenIdleIsNoOp == []C14_State /\ [][C14_Step]_vars

\* C14 witness: abort() was invoked after the first call had resolved and
\* before the second started, and the second call has resolved with a message.
C14_Witness ==
    /\ MaxCalls >= 2
    /\ call[1].pc = "resolved" /\ signal[1] /\ ~obs[1].abortRequested
    /\ call[2].pc = "resolved" /\ call[2].outcome.kind = "message"
    /\ ~signal[2]

\* C15: a non-streaming chat call whose success response lacks the expected
\* payload fails with a decode failure in both dialects: a non-streaming call
\* that resolves has a whole message.
C15_MissingPayloadFails ==
    \A c \in Calls :
        (call[c].pc = "resolved" /\ ~call[c].req.stream) =>
            /\ call[c].outcome.kind = "message"
            /\ call[c].outcome.role = "assistant"
            /\ call[c].outcome.content = PayloadContent

\* The claims about endpoints, stated without the operators of the model.
StripSlash(e) == IF e # <<>> /\ e[Len(e)] = "/" THEN SubSeq(e, 1, Len(e) - 1) ELSE e
Unpadded(e) ==
    LET idx == {i \in 1..Len(e) : e[i] # " "} IN
    IF idx = {} THEN <<>>
    ELSE SubSeq(e, CHOOSE i \in idx : \A j \in idx : i <= j,
                   CHOOSE i \in idx : \A j \in idx : j <= i)
HasLocalMark(e) == \E i \in 1..Len(e) : e[i] \in {"localhost", "127.0.0.1", "11434"}
HasVersion(b) == \E i \in 1..(Len(b) - 1) : b[i] = "/" /\ b[i + 1] = "v1"
ExpectedChat(e, base) ==
    IF HasLocalMark(e) THEN base \o <<"/", "api", "/", "chat">>
    ELSE IF HasVersion(base) THEN base \o <<"/", "chat", "/", "completions">>
    ELSE base \o <<"/", "v1", "/", "chat", "/", "completions">>
ExpectedModels(e, base) ==
    IF HasLocalMark(e) THEN base \o <<"/", "api", "/", "tags">>
    ELSE IF HasVersion(base) THEN base \o <<"/", "models">>
    ELSE base \o <<"/", "v1", "/", "models">>
ChatEndpointOf == obs[1].startSettings.apiEndpoint

\* C16 as claimed: with one trailing slash trimmed from the configured base,
\* the chat and model-listing endpoints are <base>/api/chat and
\* <base>/api/tags for the local dialect, <base>/chat/completions and
\* <base>/models when the base contains the versioned segment, and
\* <base>/v1/chat/completions and <base>/v1/models otherwise.
C16_EndpointsOfTrimmedBase ==
    /\ call[1].pc # "idle" =>
          call[1].req.url = ExpectedChat(ChatEndpointOf, StripSlash(ChatEndpointOf))
    /\ models.pc # "idle" =>
          models.url = ExpectedModels(models.endpoint, StripSlash(models.endpoint))

\* C16 as amended: the base is the configured string with surrounding white
\* space removed and then one trailing slash trimmed; the endpoints are as
\* claimed for that base, and both endpoints of one configuration use the
\* same dialect and base.
C16_EndpointsOfUnpaddedBase ==
    /\ call[1].pc # "idle" =>
          call[1].req.url =
              ExpectedChat(ChatEndpointOf, StripSlash(Unpadded(ChatEndpointOf)))
    /\ models.pc # "idle" =>
          models.url =
              ExpectedModels(models.endpoint, StripSlash(Unpadded(models.endpoint)))
    /\ (call[1].pc # "idle" /\ models.pc # "idle") =>
          /\ ChatEndpointOf = models.endpoint
          /\ \E base \in {StripSlash(Unpadded(models.endpoint))} :
                /\ StartsWith(call[1].req.url, base)
                /\ StartsWith(models.url, base)
                /\ EndsWith(call[1].req.url, <<"/", "api", "/", "chat">>)
                      <=> EndsWith(models.url, <<"/", "api", "/", "tags">>)

\* C16 witness: both requests were made for ' http://host/ ', an
\* OpenAI-compatible base without the versioned segment.
C16_Witness ==
    /\ settings.apiEndpoint = <<" ", "http://", "host", "/", " ">>
    /\ call[1].pc # "idle"
    /\ call[1].req.url = <<"http://", "host", "/", "v1", "/", "chat", "/", "completions">>
    /\ models.pc # "idle"
    /\ models.url = <<"http://", "host", "/", "v1", "/", "models">>

\* C17: endpoint resolution is idempotent for both dialects: resolving an
\* already resolved URL returns it unchanged, and trailing-slash trimming
\* applied twice gives the same base as applied once.
C17_ResolutionIdempotent ==
    /\ call[1].pc # "idle" => GetChatEndpoint(call[1].req.url) = call[1].req.url
    /\ models.pc # "idle" => GetModelsEndpoint(models.url) = models.url
    /\ GetBaseUrl(GetBaseUrl(settings.apiEndpoint)) = GetBaseUrl(settings.apiEndpoint)

\* C18: every configured endpoint is classified into exactly one dialect:
\* local when it contains 'localhost', '127.0.0.1' or '11434', and
\* OpenAI-compatible in every other case, whatever the API key.
C18_DialectOfEndpoint ==
    /\ IsOllama(settings.apiEndpoint) <=> HasLocalMark(settings.apiEndpoint)
    /\ call[1].pc # "idle" =>
          /\ call[1].req.shape \in {"options", "flat"}
          /\ call[1].req.shape = "options" <=> HasLocalMark(ChatEndpointOf)
          /\ EndsWith(call[1].req.url, <<"/", "api", "/", "chat">>)
                <=> HasLocalMark(ChatEndpointOf)
    /\ models.pc # "idle" =>
          (EndsWith(models.url, <<"/", "api", "/", "tags">>) <=> HasLocalMark(models.endpoint))

\* C18 witness: a call with an API key to a host that is not a loopback host
\* but has the local port was shaped for the local dialect.
C18_Witness ==
    /\ settings.apiEndpoint = <<"http://", "host", ":", "11434">>
    /\ settings.apiKey = "sk-1"
    /\ call[1].pc # "idle"
    /\ call[1].req.shape = "options"
    /\ call[1].req.authorization = "Bearer sk-1"

\* C19: a cancellation is never presented to the user as a failure: the
\* component that issued a call that was aborted renders no error text for it.
C19_CancellationNotRendered ==
    \A c \in Calls :
        (call[c].pc = "rejected" /\ call[c].outcome.name = "AbortError") =>
            ~ui.rendered[c].error

\* C20: ConversationHistory keeps ordered message sequences keyed by note id:
\* getMessages(noteId) is exactly the messages added for that note id since
\* its last clear, in insertion order; an operation on one note id leaves the
\* sequence of every other note id unchanged; and every mutating operation
\* invokes the save callback, with settings.chatHistory equal to the content
\* of the store.
C20_State ==
    /\ \A n \in NoteIds : GetMessages(n) = saveLog.added[n]
    /\ saveLog.saves = saveLog.ops
    /\ saveLog.saved = conversations
    /\ chatHistory = conversations
C20_Step ==
    /\ \A n \in NoteIds :
          conversations'[n] # conversations[n] =>
              \/ saveLog'.op.kind = "clearAll"
              \/ saveLog'.op.noteId = n
    /\ conversations' # conversations => saveLog'.saves = saveLog.saves + 1
C20_StoreKeepsSequences == []C20_State /\ [][C20_Step]_vars

\* C20 witness: after four operations, among them a clear of the first note
\* and two addMessage on the second, each note has what was added since its
\* last clear, in insertion order.
C20_Witness ==
    /\ saveLog.ops = 4
    /\ saveLog.op.kind = "addMessage"
    /\ GetMessages("n1") = <<Message("assistant", "a")>>
    /\ GetMessages("n2") = <<Message("user", "b"), Message("user", "a")>>
    /\ chatHistory["n2"].messages = <<Message("user", "b"), Message("user", "a")>>

\* C21: the token callback is never invoked with an empty string: a streamed
\* line whose delta is absent or empty causes no callback invocation and
\* leaves the accumulated content unchanged.
C21_State ==
    \A c \in Calls : \A i \in 1..Len(obs[c].tokens) : obs[c].tokens[i] # <<>>
C21_Step ==
    \A c \in Calls :
        (/\ call[c].pc = "lines"
         /\ Head(call[c].lines) = EventLine(ServerIsOllama(call[c].req.url), <<>>)) =>
            /\ obs'[c].tokens = obs[c].tokens
            /\ call'[c].content = call[c].content
C21_NoEmptyToken == []C21_State /\ [][C21_Step]_vars

\* C21 witness: a call whose body had an event with an empty delta between
\* two events has resolved with the two deltas only.
C21_Witness ==
    \E c \in Calls :
        LET isOllama == ServerIsOllama(call[c].req.url) IN
        /\ call[c].pc = "resolved"
        /\ obs[c].body = JoinLines(<<EventLine(isOllama, <<"a">>), EventLine(isOllama, <<>>),
                                     EventLine(isOllama, <<"b">>)>>)
        /\ obs[c].tokens = <<(<<"a">>), (<<"b">>)>>
        /\ call[c].outcome.content = <<"a", "b">>

\* The ChatPopover sends that have started and not yet settled.
PopoverUnsettled ==
    ui.popAdding + ui.popFinishing
    + Cardinality({c \in Calls : call[c].caller = "popover" /\ ~ui.rendered[c].done})

\* C22: for every interleaving of Send and Stop clicks at most one
\* ChatPopover._handleSend is unsettled at a time, and _isGenerating is true
\* for as long as one is unsettled.
C22_PopoverSingleFlight ==
    /\ PopoverUnsettled <= 1
    /\ PopoverUnsettled > 0 => ui.popGenerating

\* C23: once the ChatPopover sends have settled, by whatever path, the
\* document holds no insert marker.
C23_MarkerRemoved ==
    PopoverUnsettled = 0 => ~HasMarker(ui.doc)

\* C24: on a successful ChatPopover send the text that replaces the insert
\* marker is the content of the message returned by chat, with streaming
\* enabled or not.
C24_InsertedTextIsTheMessage ==
    \A c \in Calls :
        (call[c].caller = "popover" /\ ui.rendered[c].done
         /\ call[c].outcome.kind = "message") =>
            /\ ui.replaced[c].done
            /\ ui.replaced[c].text = call[c].outcome.content

\* One leading system message, then user and assistant messages taking turns,
\* the last one an assistant message.
RECURSIVE Alternates(_)
Alternates(roles) ==
    \/ roles = <<>>
    \/ /\ Len(roles) >= 2
       /\ roles[1] = "user" /\ roles[2] = "assistant"
       /\ Alternates(SubSeq(roles, 3, Len(roles)))
WellFormedHistory(roles) ==
    /\ Len(roles) >= 3
    /\ roles[1] = "system"
    /\ Alternates(Tail(roles))

\* C25: when the chat call of an InlineChat send fails, the stored history of
\* the note is what it was before the send; after any sequence of sends every
\* stored history is one system message followed by alternating user and
\* assistant messages that end with an assistant message.
C25_InlineHistoryWellFormed ==
    ui.inline = "idle" =>
        /\ ui.inlineFailed => ui.inlineHistory = ui.inlineBefore
        /\ ui.inlineHistory.has => WellFormedHistory(ui.inlineHistory.messages)

\* C26: chat history round-trips across an unload and reload of the plugin:
\* every conversation that was in the persisted settings before onunload is
\* still there afterwards, and getMessages returns it after the next onload.
C26_HistorySurvivesReload ==
    \A n \in NoteIds :
        saveLog.atUnload[n].has =>
            /\ saveLog.op.kind = "onunload" => saveLog.saved[n] = saveLog.atUnload[n]
            /\ saveLog.op.kind = "onload" =>
                  /\ saveLog.saved[n] = saveLog.atUnload[n]
                  /\ GetMessages(n) = saveLog.atUnload[n].messages

\* C27: after 'Clear All History' in the settings tab the saved conversations
\* stay removed: after a later addMessage or clearConversation,
\* settings.chatHistory and getMessages hold only what was added since.
C27_ClearedStaysCleared ==
    (saveLog.tabCleared /\ saveLog.op.kind \in {"addMessage", "clearConversation"}) =>
        \A n \in NoteIds :
            /\ chatHistory[n].messages = saveLog.added[n]
            /\ saveLog.saved[n].messages = saveLog.added[n]
            /\ GetMessages(n) = saveLog.added[n]

\* C28: while focus mode is active exactly one keydown handler acts on a key
\* event, and Escape or Ctrl/Cmd+S writes the overlay content exactly once,
\* into the editor passed to the most recent enter.
C28_OneHandlerOneWrite ==
    /\ ui.focusActive => Len(ui.handlers) = 1
    /\ ui.lastKey.wasActive =>
          /\ ui.lastKey.acted = 1
          /\ ui.lastKey.key \in {"Escape", "CtrlS"} =>
                \A e \in Editors :
                    ui.lastKey.writes[e] = (IF e = ui.lastKey.editor THEN 1 ELSE 0)
          /\ ui.lastKey.key = "Escape" => ~ui.focusActive

\* C29: processFillPatterns writes the editor at most once, only after the
\* chat call of every match has succeeded; when a call fails the editor is
\* unchanged; and the calls are issued one at a time in match order.
FillCalls == {c \in Calls : call[c].caller = "fill"}
C29_FillAllOrNothing ==
    /\ ui.fillEditor.writes <= 1
    /\ ui.fillEditor.writes = 1 =>
          /\ ui.fill.pc = "done"
          /\ ui.fillEditor.filled = ui.fill.matches
          /\ \A i \in 1..ui.fill.matches :
                \E c \in FillCalls : /\ call[c].req.messages = FillPrompt(i)
                                     /\ call[c].outcome.kind = "message"
    /\ ui.fill.pc = "failed" => ui.fillEditor = [writes |-> 0, filled |-> 0]
    /\ Cardinality({c \in FillCalls : InFlight(c)}) <= 1
    /\ \A c, d \in FillCalls :
          c < d => /\ call[c].outcome.kind = "message"
                   /\ \E i, j \in 1..ui.fill.matches :
                         /\ i < j
                         /\ call[c].req.messages = FillPrompt(i)
                         /\ call[d].req.messages = FillPrompt(j)
    /\ \A c \in FillCalls :
          call[c].req.messages = FillPrompt(Cardinality({d \in FillCalls : d <= c}))

\* The second of two calls failed after the first succeeded.
C29_Witness ==
    /\ ui.fill.pc = "failed"
    /\ ui.fill.index = 2
    /\ ui.fill.updated = 1
    /\ ui.fillEditor.writes = 0

\* C30: parsing the note text that _saveToNote wrote yields the list of
\* messages that was saved: same roles, contents and order.
C30_NoteRoundTrips ==
    ui.note.pc = "shown" => ui.note.parsed = ui.note.messages

====
